---- MODULE Spec2Model ----
(***************************************************************************)
(* The GROMACS easyblock (easybuild/easyblocks/g/gromacs.py): the variant  *)
(* matrix built by EB_GROMACS.run_all_steps and the per-variant pipeline   *)
(* steps (configure, build, test, install, extensions) that the host       *)
(* framework drives over it.                                               *)
(*                                                                         *)
(* Option strings are sequences of atoms; the atom SP is one blank, so     *)
(* that joining, appending and the substring test `x in s` are computed    *)
(* and not assumed.                                                        *)
(***************************************************************************)
EXTENDS Integers, Sequences, FiniteSets, TLC

\* ------------------------------------------------------------- strings

SP == " "

\* ' '.join(parts)
RECURSIVE Join(_)
Join(parts) ==
    IF Len(parts) = 0 THEN <<>>
    ELSE IF Len(parts) = 1 THEN parts[1]
    ELSE parts[1] \o <<SP>> \o Join(Tail(parts))

\* pat in s, for strings (a contiguous occurrence)
Contains(s, pat) ==
    \E i \in 0..(Len(s) - Len(pat)) :
        \A k \in 1..Len(pat) : s[i + k] = pat[k]

\* An easyconfig parameter that holds either one string or a list of strings.
StrVal(s) == [isList |-> FALSE, s |-> s, l |-> <<>>]
ListVal(l) == [isList |-> TRUE, s |-> <<>>, l |-> l]

\* cfg.update(key, value) of the host framework, as the easyblock uses it:
\* a string value is appended to a string parameter behind one blank (and
\* followed by one), a list value is appended to a list parameter.
UpdateStr(prev, value) == prev \o <<SP>> \o value \o <<SP>>
UpdateList(prev, items) == prev \o items

\* ------------------------------------------------------------- bounds

\* Longest common configure baseline of the easyconfig, in atoms.
MaxCommonLen == 1

\* ------------------------------------------------------------- inputs

\* LooseVersion(self.version), as 10 * major + minor: 4.5, 4.6 and 5.0.
V46 == 46
V5 == 50
Versions == {45, V46, V5}

ConfigAtoms == {"--X", "-DGMX_DOUBLE=ON"}

RECURSIVE AtomStrings(_, _)
AtomStrings(atoms, n) ==
    IF n = 0 THEN {<<>>}
    ELSE LET shorter == AtomStrings(atoms, n - 1)
         IN  shorter \cup {Join(<<s, <<a>> >>) : s \in (shorter \ {<<>>}), a \in atoms}
                     \cup {<<a>> : a \in atoms}

CommonConfigOpts == AtomStrings(ConfigAtoms, MaxCommonLen)
\* buildopts and installopts of the easyconfig: one of them empty
CommonBuildInstallOpts ==
    { [buildopts |-> <<>>, installopts |-> <<"-k">>],
      [buildopts |-> <<"V=1">>, installopts |-> <<>>] }

\* cfg['runtest']: unset, a boolean, or a make target
RunTests == { [kind |-> "None", s |-> <<>>], [kind |-> "True", s |-> <<>>],
              [kind |-> "False", s |-> <<>>], [kind |-> "str", s |-> <<"tests">>] }

\* "-j %s" % self.cfg['parallel']
JFlag == <<"-j", SP, "<parallel>">>

\* ------------------------------------------------------------- the variant plan

VersionLt(version, bound) == version < bound

prec_opts(version, precision) ==
    IF VersionLt(version, V46)
    THEN (IF precision = "single" THEN <<"--disable-double">> ELSE <<"--enable-double">>)
    ELSE (IF precision = "single" THEN <<"-DGMX_DOUBLE=OFF">> ELSE <<"-DGMX_DOUBLE=ON">>)

mpi_type_opts(version, mpitype) ==
    IF VersionLt(version, V46)
    THEN (IF mpitype = "nompi" THEN <<"--disable-mpi">> ELSE <<"--enable-mpi">>)
    ELSE (IF mpitype = "nompi"
          THEN <<"-DGMX_MPI=OFF", SP, "-DGMX_THREAD_MPI=ON">>
          ELSE <<"-DGMX_MPI=ON", SP, "-DGMX_THREAD_MPI=OFF">>)

build_opts(version, mpitype) ==
    IF VersionLt(version, V5) /\ mpitype = "mpi" THEN <<"mdrun">> ELSE <<>>

install_opts(version, mpitype) ==
    IF VersionLt(version, V5) /\ mpitype = "mpi" THEN <<"install-mdrun">> ELSE <<"install">>

\* "--program-suffix={0}".format(mpisuffix), with '_d' appended for double
program_suffix(precision, mpitype) ==
    IF mpitype # "mpi" THEN <<>>
    ELSE IF precision = "double" THEN <<"--program-suffix=_mpi_d">>
    ELSE <<"--program-suffix=_mpi">>

\* Mutant: an unset double_precision is taken as "no".
precisions_if_requested(double_precision) ==
    <<"single">> \o (IF double_precision = "True" THEN <<"double">> ELSE <<>>)

precisions(double_precision) ==
    <<"single">> \o (IF double_precision \in {"None", "True"} THEN <<"double">> ELSE <<>>)

mpitypes(usempi) ==
    <<"nompi">> \o (IF usempi THEN <<"mpi">> ELSE <<>>)

var_confopts(version, precision, mpitype) ==
    <<mpi_type_opts(version, mpitype), prec_opts(version, precision)>>
        \o (IF VersionLt(version, V46) THEN <<program_suffix(precision, mpitype)>> ELSE <<>>)

var_buildopts(version, mpitype) == <<build_opts(version, mpitype)>>

var_installopts(version, mpitype) == <<install_opts(version, mpitype)>>

\* Mutant: the baseline is put in front of the variant's options.
MergeOptsCommonFirst(var_opts, common_opts) == common_opts \o <<SP>> \o Join(var_opts)

\* ' '.join(var_opts) + ' ' + common_opts
MergeOpts(var_opts, common_opts) == Join(var_opts) \o <<SP>> \o common_opts

\* The body of the inner loop: one variant appended to the three lists.
AddVariant(acc, version, precision, mpitype, common) ==
    [ versions_built |-> Append(acc.versions_built, <<precision, SP, "precision", SP, mpitype>>),
      configopts  |-> UpdateList(acc.configopts,
                          <<MergeOpts(var_confopts(version, precision, mpitype), common.configopts)>>),
      buildopts   |-> UpdateList(acc.buildopts,
                          <<MergeOpts(var_buildopts(version, mpitype), common.buildopts)>>),
      installopts |-> UpdateList(acc.installopts,
                          <<MergeOpts(var_installopts(version, mpitype), common.installopts)>>) ]

\* for mpitype in mpitypes
RECURSIVE MpiLoop(_, _, _, _, _)
MpiLoop(acc, version, precision, ms, common) ==
    IF Len(ms) = 0 THEN acc
    ELSE MpiLoop(AddVariant(acc, version, precision, Head(ms), common),
                 version, precision, Tail(ms), common)

\* for precicion in precisions
RECURSIVE PrecisionLoop(_, _, _, _, _)
PrecisionLoop(acc, version, ps, ms, common) ==
    IF Len(ps) = 0 THEN acc
    ELSE PrecisionLoop(MpiLoop(acc, version, Head(ps), ms, common),
                       version, Tail(ps), ms, common)

EmptyPlan == [versions_built |-> <<>>, configopts |-> <<>>, buildopts |-> <<>>, installopts |-> <<>>]

\* Mutant: the two loops nested the other way round.
RECURSIVE PrecisionInnerLoop(_, _, _, _, _)
PrecisionInnerLoop(acc, version, ps, mpitype, common) ==
    IF Len(ps) = 0 THEN acc
    ELSE PrecisionInnerLoop(AddVariant(acc, version, Head(ps), mpitype, common),
                            version, Tail(ps), mpitype, common)

RECURSIVE MpiOuterLoop(_, _, _, _, _)
MpiOuterLoop(acc, version, ps, ms, common) ==
    IF Len(ms) = 0 THEN acc
    ELSE MpiOuterLoop(PrecisionInnerLoop(acc, version, ps, Head(ms), common),
                      version, ps, Tail(ms), common)

PlanVariantsMpiOuter(version, double_precision, usempi, common) ==
    MpiOuterLoop(EmptyPlan, version, precisions(double_precision), mpitypes(usempi), common)

PlanVariants(version, double_precision, usempi, common) ==
    PrecisionLoop(EmptyPlan, version, precisions(double_precision), mpitypes(usempi), common)

\* ------------------------------------------------------------- state

VARIABLES
    version,        \* self.version
    cuda,           \* get_software_root('CUDA') is set
    usempi,         \* self.toolchain.options['usempi']
    mpiexec_found,  \* which(self.cfg['mpiexec']) finds the executable
    cfg,            \* self.cfg: the easyconfig parameters the easyblock touches
    self,           \* attributes of the easyblock instance
    common,         \* run_all_steps' locals common_config_opts, common_build_opts, common_install_opts
    versions_built, \* run_all_steps' local versions_built
    pc,             \* where the run is
    error,          \* the EasyBuildError that ended the run ("none" while there is none)
    trace,          \* the pipeline steps entered so far, in order
    ext_runs,       \* how often the parent's extensions_step was executed
    dsuff           \* sanity_check_step's dsuff: whether '_d' files are expected

env == <<version, cuda, usempi, mpiexec_found>>
vars == <<version, cuda, usempi, mpiexec_found, cfg, self, common, versions_built,
          pc, error, trace, ext_runs, dsuff>>

\* One pipeline step as the run entered it: the iteration it belongs to,
\* whether the underlying (parent) step was invoked, how the step ended, and
\* the option string that was active for it.
Entry(step, idx, host, outcome, opts) ==
    [step |-> step, idx |-> idx, host |-> host, outcome |-> outcome, opts |-> opts]

NoneRuntest == [kind |-> "None", s |-> <<>>]

Init ==
    /\ version \in Versions
    /\ cuda \in BOOLEAN
    /\ usempi \in BOOLEAN
    /\ mpiexec_found \in (IF usempi THEN BOOLEAN ELSE {TRUE})
    /\ \E dp \in {"None", "True", "False"}, cc \in CommonConfigOpts,
          bi \in CommonBuildInstallOpts, rt \in RunTests :
          cfg = [ double_precision |-> dp,
                  configopts  |-> StrVal(cc),
                  buildopts   |-> StrVal(bi.buildopts),
                  installopts |-> StrVal(bi.installopts),
                  install_cmd |-> "make install",
                  build_cmd   |-> "make",
                  runtest     |-> rt ]
    /\ self = [ save_installopts    |-> StrVal(<<>>),
                save_install_cmd    |-> "",
                save_build_cmd      |-> "",
                double_prec_pattern |-> <<>>,
                variants_to_build   |-> 0,
                iter_idx            |-> 0,
                iterating           |-> FALSE,
                iter_opts           |-> [configopts |-> <<>>, buildopts |-> <<>>, installopts |-> <<>>] ]
    /\ common = [configopts |-> <<>>, buildopts |-> <<>>, installopts |-> <<>>]
    /\ versions_built = <<>>
    /\ pc = "start"
    /\ error = "none"
    /\ trace = <<>>
    /\ ext_runs = 0
    /\ dsuff = FALSE

\* ------------------------------------------------------------- run_all_steps

\* EB_GROMACS.run_all_steps up to the call of the parent's run_all_steps:
\* the baseline is saved, the three parameters become lists with one entry
\* per variant, and the variants are counted.
run_all_steps ==
    /\ pc = "start"
    /\ LET saved == [configopts  |-> cfg.configopts.s,
                     buildopts   |-> cfg.buildopts.s,
                     installopts |-> cfg.installopts.s]
           plan == PlanVariants(version, cfg.double_precision, usempi, saved)
       IN  /\ common' = saved
           /\ versions_built' = plan.versions_built
           /\ cfg' = [cfg EXCEPT !.configopts = ListVal(plan.configopts),
                                 !.buildopts = ListVal(plan.buildopts),
                                 !.installopts = ListVal(plan.installopts),
                                 !.install_cmd = IF VersionLt(version, V5) THEN "make" ELSE @]
           /\ self' = [self EXCEPT !.save_installopts = cfg.installopts,
                                   !.save_install_cmd = cfg.install_cmd,
                                   !.save_build_cmd = cfg.build_cmd,
                                   !.double_prec_pattern = prec_opts(version, "double"),
                                   !.variants_to_build = Len(plan.configopts)]
    /\ pc' = "ready"
    /\ UNCHANGED <<env, error, trace, ext_runs, dsuff>>

\* The host framework's handle_iterate_opts, run at the start of every
\* iteration: the index is bumped once iterating has begun, the lists are
\* remembered on the first round, and the entry of this round becomes the
\* active value of each iterated parameter.
IterValue(list, idx) == IF Len(list) > idx THEN list[idx + 1] ELSE <<>>

handle_iterate_opts ==
    /\ pc = "ready"
    /\ LET idx == IF self.iterating THEN self.iter_idx + 1 ELSE self.iter_idx
           lists == IF idx = 0
                    THEN [configopts  |-> cfg.configopts.l,
                          buildopts   |-> cfg.buildopts.l,
                          installopts |-> cfg.installopts.l]
                    ELSE self.iter_opts
       IN  /\ self' = [self EXCEPT !.iter_idx = idx, !.iterating = TRUE, !.iter_opts = lists]
           /\ cfg' = [cfg EXCEPT !.configopts = StrVal(IterValue(lists.configopts, idx)),
                                 !.buildopts = StrVal(IterValue(lists.buildopts, idx)),
                                 !.installopts = StrVal(IterValue(lists.installopts, idx))]
    /\ pc' = "configure"
    /\ UNCHANGED <<env, common, versions_built, error, trace, ext_runs, dsuff>>

\* ------------------------------------------------------------- pipeline steps

\* Mutant: the error of a step is caught and the run goes on with the next round.
RaiseAndGoOn(kind) ==
    /\ pc' = "ready"
    /\ error' = kind

\* Mutant: the error of a step is caught and the run reported as complete.
RaiseSwallowed(kind) ==
    /\ pc' = "completed"
    /\ error' = kind

\* How a step leaves the run: on to the next position, or failed with the
\* error it raised (nothing in run_all_steps catches it).
Raise(kind) ==
    /\ pc' = "failed"
    /\ error' = kind

Proceed(next) ==
    /\ pc' = next
    /\ error' = error

Log(step, host, outcome, opts) ==
    trace' = Append(trace, Entry(step, self.iter_idx, host, outcome, opts))

\* Python truth value of cfg['runtest']
RuntestTruthy(rt) == rt.kind = "True" \/ (rt.kind = "str" /\ Len(rt.s) > 0)

\* Mutant: the CMake flag is looked for whatever the version.
is_double_precision_cuda_build_cmake(cuda_root, pattern, configopts) ==
    cuda_root /\ Contains(configopts, <<"-DGMX_DOUBLE=ON">>)

\* Mutant: a double precision variant is skipped with or without CUDA.
is_double_precision_cuda_build_any(cuda_root, pattern, configopts) ==
    Contains(configopts, pattern)

is_double_precision_cuda_build(cuda_root, pattern, configopts) ==
    cuda_root /\ Contains(configopts, pattern)

\* Mutant: the version gate of the conflict check set at 5 instead of 4.6.
double_precision_conflict_from_5(v, cuda_root, double_precision) ==
    ~VersionLt(v, V5) /\ cuda_root /\ double_precision = "True"

\* configure_step: double_precision = True with CUDA is refused (4.6 and later)
double_precision_conflict(v, cuda_root, double_precision) ==
    ~VersionLt(v, V46) /\ cuda_root /\ double_precision = "True"

\* configure_step: the double precision variant of a CUDA build is skipped (4.6 and later)
configure_skips(v, cuda_root, pattern, configopts) ==
    ~VersionLt(v, V46) /\ cuda_root /\ Contains(configopts, pattern)

gpu_opts(cuda_root) ==
    IF cuda_root THEN <<"-DGMX_GPU=ON", SP, "-DCUDA_TOOLKIT_ROOT_DIR=<cuda>">>
    ELSE <<"-DGMX_GPU=OFF">>

\* configure_step: the MPI launcher is looked up for an MPI variant (4.6 and later)
looks_for_mpiexec(v, configopts) ==
    ~VersionLt(v, V46) /\ Contains(configopts, <<"-DGMX_MPI=ON">>)

mpiexec_opts(configopts) ==
    UpdateStr(UpdateStr(UpdateStr(configopts, <<"-DMPIEXEC=<mpiexec>">>),
                        <<"-DMPIEXEC_NUMPROC_FLAG=-np">>),
              <<"-DNUMPROC=<parallel>">>)

\* Mutant: the GPU option assigned to configopts instead of appended.
gpu_configopts_assigned(v, cuda_root, configopts) ==
    IF VersionLt(v, V46) THEN configopts ELSE gpu_opts(cuda_root)

\* The options configure_step appends before it runs the parent's configure;
\* atoms in angle brackets stand for values read from the environment.
gpu_configopts(v, cuda_root, configopts) ==
    IF VersionLt(v, V46) THEN configopts ELSE UpdateStr(configopts, gpu_opts(cuda_root))

final_configopts(v, found, configopts) ==
    IF VersionLt(v, V46)
    THEN UpdateStr(UpdateStr(UpdateStr(UpdateStr(UpdateStr(configopts,
             <<"<shared-or-static>">>),
             <<"--with-external-blas", SP, "--with-external-lapack">>),
             <<"--without-x">>),
             <<"<threads>">>),
             <<"<gsl>">>)
    ELSE LET withmpi == IF looks_for_mpiexec(v, configopts) /\ found
                        THEN mpiexec_opts(configopts) ELSE configopts
         IN  UpdateStr(UpdateStr(UpdateStr(UpdateStr(withmpi,
                 <<"<prefer-static-libs>">>),
                 <<"-DGMX_EXTERNAL_BLAS=ON", SP, "-DGMX_EXTERNAL_LAPACK=ON">>),
                 <<"-DGMX_X11=OFF">>),
                 <<"<toolchain-opts>">>)

configure_step ==
    /\ pc = "configure"
    /\ IF double_precision_conflict(version, cuda, cfg.double_precision)
       THEN /\ Raise("conflict")
            /\ Log("configure", FALSE, "raised", cfg.configopts.s)
            /\ UNCHANGED cfg
       ELSE IF configure_skips(version, cuda, self.double_prec_pattern, cfg.configopts.s)
       THEN /\ Proceed("build")
            /\ Log("configure", FALSE, "skipped", cfg.configopts.s)
            /\ cfg' = [cfg EXCEPT !.double_precision = IF @ = "None" THEN "False" ELSE @]
       ELSE LET gpu == gpu_configopts(version, cuda, cfg.configopts.s)
                opts == final_configopts(version, mpiexec_found, gpu)
            IN  IF looks_for_mpiexec(version, gpu) /\ ~mpiexec_found /\ RuntestTruthy(cfg.runtest)
                THEN /\ Raise("mpiexec")
                     /\ Log("configure", FALSE, "raised", gpu)
                     /\ cfg' = [cfg EXCEPT !.configopts = StrVal(gpu)]
                ELSE \E ok \in BOOLEAN :
                     /\ IF ok THEN Proceed("build") ELSE Raise("step")
                     /\ Log("configure", TRUE, IF ok THEN "done" ELSE "raised", opts)
                     /\ cfg' = [cfg EXCEPT !.configopts = StrVal(opts)]
    /\ UNCHANGED <<env, self, common, versions_built, ext_runs, dsuff>>

build_step ==
    /\ pc = "build"
    /\ IF is_double_precision_cuda_build(cuda, self.double_prec_pattern, cfg.configopts.s)
       THEN /\ Proceed("test")
            /\ Log("build", FALSE, "skipped", cfg.buildopts.s)
       ELSE \E ok \in BOOLEAN :
            /\ IF ok THEN Proceed("test") ELSE Raise("step")
            /\ Log("build", TRUE, IF ok THEN "done" ELSE "raised", cfg.buildopts.s)
    /\ UNCHANGED <<env, cfg, self, common, versions_built, ext_runs, dsuff>>

\* test_step: tests run when runtest is unset or true
runs_tests(rt) == rt.kind = "None" \/ RuntestTruthy(rt)

\* Mutant: 'check' is put in for an unset runtest only, not for True.
test_target_none_only(rt) ==
    UpdateStr(IF rt.kind = "None" THEN <<"check">> ELSE rt.s, JFlag)

\* the target handed to the parent's test_step
test_target(rt) ==
    UpdateStr(IF rt.kind \in {"None", "True", "False"} THEN <<"check">> ELSE rt.s, JFlag)

test_step ==
    /\ pc = "test"
    /\ IF is_double_precision_cuda_build(cuda, self.double_prec_pattern, cfg.configopts.s)
       THEN /\ Proceed("install")
            /\ Log("test", FALSE, "skipped", cfg.runtest.s)
            /\ UNCHANGED cfg
       ELSE IF runs_tests(cfg.runtest)
       THEN LET old_runtest == cfg.runtest
                target == test_target(cfg.runtest)
            IN  \E ok \in BOOLEAN :
                /\ IF ok THEN Proceed("install") ELSE Raise("step")
                /\ Log("test", TRUE, IF ok THEN "done" ELSE "raised", target)
                /\ cfg' = [cfg EXCEPT !.runtest = IF ok THEN old_runtest
                                                  ELSE [kind |-> "str", s |-> target]]
       ELSE /\ Proceed("install")
            /\ Log("test", FALSE, "done", cfg.runtest.s)
            /\ UNCHANGED cfg
    /\ UNCHANGED <<env, self, common, versions_built, ext_runs, dsuff>>

install_step ==
    /\ pc = "install"
    /\ IF is_double_precision_cuda_build(cuda, self.double_prec_pattern, cfg.configopts.s)
       THEN /\ Proceed("extensions")
            /\ Log("install", FALSE, "skipped", cfg.installopts.s)
            /\ UNCHANGED cfg
       ELSE LET opts == UpdateStr(cfg.installopts.s, JFlag)
            IN  \E ok \in BOOLEAN :
                /\ IF ok THEN Proceed("extensions") ELSE Raise("step")
                /\ Log("install", TRUE, IF ok THEN "done" ELSE "raised", opts)
                /\ cfg' = [cfg EXCEPT !.installopts = IF ok THEN self.save_installopts
                                                      ELSE StrVal(opts)]
    /\ UNCHANGED <<env, self, common, versions_built, ext_runs, dsuff>>

\* Mutant: the guard of extensions_step off by one round.
extensions_skipped_early(iter_idx, variants_to_build) == iter_idx < variants_to_build - 2

\* extensions_step returns at once before the last iteration round
extensions_skipped(iter_idx, variants_to_build) == iter_idx < variants_to_build - 1

\* The host framework's det_iter_cnt: the longest of the iterated lists.
Max(a, b) == IF a >= b THEN a ELSE b

det_iter_cnt(lists) ==
    Max(Len(lists.configopts), Max(Len(lists.buildopts), Len(lists.installopts)))

\* Where the host framework goes after the extensions step of a round:
\* the next round, or the steps that follow the iterated part.
AfterRound == IF self.iter_idx + 1 < det_iter_cnt(self.iter_opts) THEN "ready" ELSE "post_iter"

extensions_step ==
    /\ pc = "extensions"
    /\ IF extensions_skipped(self.iter_idx, self.variants_to_build)
       THEN /\ Proceed(AfterRound)
            /\ Log("extensions", FALSE, "skipped", cfg.installopts.s)
            /\ UNCHANGED <<cfg, ext_runs>>
       ELSE \E ok \in BOOLEAN :
            /\ IF ok THEN Proceed(AfterRound) ELSE Raise("step")
            /\ Log("extensions", TRUE, IF ok THEN "done" ELSE "raised", cfg.installopts.s)
            /\ cfg' = [cfg EXCEPT !.runtest = NoneRuntest]
            /\ ext_runs' = ext_runs + 1
    /\ UNCHANGED <<env, self, common, versions_built, dsuff>>

\* The host framework's post_iter_step: the iterated parameters get back the
\* lists they held when iterating began.
post_iter_step ==
    /\ pc = "post_iter"
    /\ cfg' = [cfg EXCEPT !.configopts = ListVal(self.iter_opts.configopts),
                          !.buildopts = ListVal(self.iter_opts.buildopts),
                          !.installopts = ListVal(self.iter_opts.installopts)]
    /\ pc' = "sanity_check"
    /\ UNCHANGED <<env, self, common, versions_built, error, trace, ext_runs, dsuff>>

\* sanity_check_step: configopts as a list, and whether '_d' files are expected
configopts_list(configopts) == IF configopts.isList THEN configopts.l ELSE <<configopts.s>>

\* Mutant: the '_d' artefacts are expected with or without CUDA.
expects_dsuff_any(cuda_root, pattern, list) ==
    \E i \in 1..Len(list) : Contains(list[i], pattern)

expects_dsuff(cuda_root, pattern, list) ==
    ~cuda_root /\ \E i \in 1..Len(list) : Contains(list[i], pattern)

\* The sanity check ends the parent's run_all_steps; EB_GROMACS.run_all_steps
\* returns its result, and the statements after that return are not reached.
sanity_check_step ==
    /\ pc = "sanity_check"
    /\ dsuff' = expects_dsuff(cuda, self.double_prec_pattern, configopts_list(cfg.configopts))
    /\ \E ok \in BOOLEAN :
       /\ IF ok THEN Proceed("completed") ELSE Raise("step")
       /\ trace' = Append(trace, Entry("sanity_check", self.iter_idx, TRUE,
                                       IF ok THEN "done" ELSE "raised", <<>>))
    /\ UNCHANGED <<env, cfg, self, common, versions_built, ext_runs>>

Next ==
    \/ run_all_steps
    \/ handle_iterate_opts
    \/ configure_step
    \/ build_step
    \/ test_step
    \/ install_step
    \/ extensions_step
    \/ post_iter_step
    \/ sanity_check_step

Spec == Init /\ [][Next]_vars

\* Every step invocation returns: a step that can be taken is taken.
FairSpec == Spec /\ WF_vars(Next)

\* ------------------------------------------------------------- types

TypeOK ==
    /\ pc \in {"start", "ready", "configure", "build", "test", "install", "extensions",
               "post_iter", "sanity_check", "completed", "failed"}
    /\ error \in {"none", "conflict", "mpiexec", "step"}
    /\ cfg.double_precision \in {"None", "True", "False"}
    /\ self.iter_idx \in 0..3
    /\ self.variants_to_build \in 0..4
    /\ ext_runs \in 0..1

\* ------------------------------------------------------------- claims

IsPrefix(p, s) ==
    /\ Len(p) <= Len(s)
    /\ \A k \in 1..Len(p) : s[k] = p[k]

IsSuffix(p, s) ==
    /\ Len(p) <= Len(s)
    /\ \A k \in 1..Len(p) : s[Len(s) - Len(p) + k] = p[k]

\* The steps entered so far, as positions of the trace.
Steps == 1..Len(trace)

PipelineSteps == {"configure", "build", "test", "install"}

\* The number of planned variants.
N == self.variants_to_build

\* Every pipeline step of every planned variant was entered.
AllVariantsProcessed ==
    \A i \in 0..(N - 1) : \A s \in PipelineSteps :
        \E k \in Steps : trace[k].step = s /\ trace[k].idx = i

NoStepFailed == \A k \in Steps : trace[k].outcome # "raised"

\* The precision of the variant planned at index idx.
IsDoubleVariant(idx) == versions_built[idx + 1][1] = "double"

\* C1: in a run in which no step fails the parent's extensions step (the
\* one-time hook) is executed exactly once, and only while the iteration
\* index is N-1; on every round with a smaller index extensions_step
\* returns without executing it.
C1_HookOnceOnLastVariant ==
    /\ \A k \in Steps : trace[k].step = "extensions" =>
           (trace[k].host <=> trace[k].idx = N - 1)
    /\ ext_runs = Cardinality({k \in Steps : trace[k].step = "extensions" /\ trace[k].host})
    /\ ext_runs <= 1
    /\ (pc = "completed" /\ NoStepFailed) => ext_runs = 1

C1_Witness ==
    /\ pc = "completed"
    /\ NoStepFailed
    /\ N = 4
    /\ ext_runs = 1
    /\ \E k \in Steps : trace[k].step = "extensions" /\ trace[k].idx = 2 /\ ~trace[k].host

\* C2: once a step has raised on variant i nothing more is entered (no
\* configure, build or install of a later variant, no hook), the run is
\* failed with that error, and no further step can be taken.
C2_FailureAbortsAndPropagates ==
    /\ \A k \in Steps : trace[k].outcome = "raised" =>
           /\ k = Len(trace)
           /\ pc = "failed"
           /\ error # "none"
           /\ \A j \in Steps : trace[j].idx <= trace[k].idx
    /\ pc = "failed" => (~ENABLED Next /\ Len(trace) > 0 /\ trace[Len(trace)].outcome = "raised")
    /\ pc = "completed" => error = "none"

C2_Witness ==
    /\ pc = "failed"
    /\ error = "step"
    /\ N = 4
    /\ trace[Len(trace)].step = "build"
    /\ trace[Len(trace)].idx = 1
    /\ ext_runs = 0

\* A variant to be skipped: double precision, CUDA present, double precision
\* not explicitly requested.
SkipVariant(idx) == cuda /\ cfg.double_precision # "True" /\ IsDoubleVariant(idx)

\* C3: for a skipped variant the parent's build and install are never
\* invoked and the skipping steps raise nothing; the index advances past the
\* variant, and every later variant has its pipeline steps entered.
C3_SkippedVariant ==
    /\ \A k \in Steps :
           (trace[k].step \in {"build", "install"} /\ SkipVariant(trace[k].idx)) =>
               /\ ~trace[k].host
               /\ trace[k].outcome = "skipped"
    /\ \A k \in Steps :
           (trace[k].step = "install" /\ SkipVariant(trace[k].idx) /\ k + 1 < Len(trace)) =>
               /\ trace[k + 1].step = "extensions"
               /\ trace[k + 1].outcome # "raised"
               /\ trace[k + 2].step = IF trace[k].idx < N - 1 THEN "configure" ELSE "sanity_check"
               /\ trace[k].idx < N - 1 => trace[k + 2].idx = trace[k].idx + 1
    /\ (pc = "completed" /\ N > 0) => AllVariantsProcessed

C3_Witness ==
    /\ pc = "completed"
    /\ cuda
    /\ N = 4
    /\ version < V46
    /\ \E k \in Steps : /\ trace[k].step = "install" /\ trace[k].idx = 2
                        /\ SkipVariant(2) /\ ~trace[k].host
    /\ \E k \in Steps : trace[k].step = "install" /\ trace[k].idx = 3 /\ ~trace[k].host

\* The state right after EB_GROMACS.run_all_steps has built the plan, before
\* the first round: the three parameters hold the lists.
Planned == pc = "ready" /\ ~self.iterating

\* Sizes of the two axes, and the axis values of the variant at index i when
\* precision is the outer and MPI mode the inner loop.
NumPrecisions == IF cfg.double_precision = "False" THEN 1 ELSE 2
NumMpiTypes == IF usempi THEN 2 ELSE 1
PrecisionAt(i) == IF i \div NumMpiTypes = 0 THEN "single" ELSE "double"
MpiAt(i) == IF i % NumMpiTypes = 0 THEN "nompi" ELSE "mpi"
Label(precision, mpitype) == <<precision, SP, "precision", SP, mpitype>>

\* C4: the plan holds |precisions| x |mpitypes| entries in each of the three
\* lists, variants_to_build is that number, and the entries are ordered with
\* precision as the outer and MPI mode as the inner loop.
C4_PlanSizeAndOrder ==
    Planned =>
        /\ N = NumPrecisions * NumMpiTypes
        /\ cfg.configopts.isList /\ cfg.buildopts.isList /\ cfg.installopts.isList
        /\ Len(cfg.configopts.l) = N
        /\ Len(cfg.buildopts.l) = N
        /\ Len(cfg.installopts.l) = N
        /\ Len(versions_built) = N
        /\ \A i \in 0..(N - 1) :
               /\ versions_built[i + 1] = Label(PrecisionAt(i), MpiAt(i))
               /\ IsPrefix(mpi_type_opts(version, MpiAt(i)), cfg.configopts.l[i + 1])
               /\ Contains(cfg.configopts.l[i + 1], prec_opts(version, "single"))
                      <=> PrecisionAt(i) = "single"
        /\ N = 4 => versions_built = << Label("single", "nompi"), Label("single", "mpi"),
                                        Label("double", "nompi"), Label("double", "mpi") >>

C4_Witness ==
    /\ Planned
    /\ N = 4
    /\ Len(cfg.installopts.l) = 4
    /\ versions_built[2] = Label("single", "mpi")
    /\ versions_built[3] = Label("double", "nompi")

\* C5 as stated: each option string is the precision fragment, then the
\* MPI-mode fragment, joined by one blank, then one blank and the baseline.
C5_PrecisionFragmentFirst ==
    Planned =>
        \A i \in 0..(N - 1) :
            cfg.configopts.l[i + 1] =
                prec_opts(version, PrecisionAt(i)) \o <<SP>> \o mpi_type_opts(version, MpiAt(i))
                    \o <<SP>> \o common.configopts

\* The strings of the plan, fragment by fragment.
C5_PlannedStrings ==
    Planned =>
        \A i \in 0..(N - 1) :
            /\ cfg.configopts.l[i + 1] =
                   mpi_type_opts(version, MpiAt(i)) \o <<SP>> \o prec_opts(version, PrecisionAt(i))
                       \o (IF version < V46
                           THEN <<SP>> \o program_suffix(PrecisionAt(i), MpiAt(i)) ELSE <<>>)
                       \o <<SP>> \o common.configopts
            /\ cfg.buildopts.l[i + 1] =
                   build_opts(version, MpiAt(i)) \o <<SP>> \o common.buildopts
            /\ cfg.installopts.l[i + 1] =
                   install_opts(version, MpiAt(i)) \o <<SP>> \o common.installopts
            /\ IsSuffix(common.configopts, cfg.configopts.l[i + 1])
            /\ IsSuffix(common.buildopts, cfg.buildopts.l[i + 1])
            /\ IsSuffix(common.installopts, cfg.installopts.l[i + 1])

\* The baseline is what the three parameters held when run_all_steps began.
BaselineCaptured ==
    pc = "start" =>
        common' = [configopts  |-> cfg.configopts.s,
                   buildopts   |-> cfg.buildopts.s,
                   installopts |-> cfg.installopts.s]

\* C5, amended: the configure string is the MPI-mode fragment, the precision
\* fragment and, below 4.6, the program-suffix fragment, joined by one blank;
\* the build and install strings carry the MPI-mode fragment alone; each is
\* followed by one blank and the baseline saved before the lists were built,
\* and so ends with it, empty fragments and baselines included.
C5_Amended == [](C5_PlannedStrings) /\ [][BaselineCaptured]_vars

C5_Witness ==
    /\ Planned
    /\ N = 4
    /\ version < V46
    /\ common.configopts = <<"--X">>
    /\ common.buildopts = <<>>
    /\ common.installopts = <<"-k">>
    /\ cfg.buildopts.l[1] = <<SP>>
    /\ cfg.configopts.l[1] = <<"--disable-mpi", SP, "--disable-double", SP, SP, "--X">>

\* C6: when run_all_steps has returned after all variants, each of the three
\* parameters is again the one string that was saved at the start.
C6_CommonRestored ==
    pc = "completed" =>
        /\ cfg.configopts = StrVal(common.configopts)
        /\ cfg.buildopts = StrVal(common.buildopts)
        /\ cfg.installopts = StrVal(common.installopts)

\* C7 as stated: with CUDA present and double_precision unset the plan holds
\* single precision variants only.
C7_DoubleExcludedFromPlan ==
    (Planned /\ cuda /\ cfg.double_precision = "None") =>
        /\ N = NumMpiTypes
        /\ \A i \in 0..(N - 1) : ~IsDoubleVariant(i)

\* C7, amended: with CUDA present and double_precision unset the plan still
\* holds the double precision variants, behind the single precision ones, and
\* planning does not fail; the parent's build and install are never invoked
\* for them.
C7_DoublePlannedButSkipped ==
    /\ (Planned /\ cuda /\ cfg.double_precision = "None") =>
           /\ error = "none"
           /\ N = 2 * NumMpiTypes
           /\ \A i \in 0..(N - 1) : IsDoubleVariant(i) <=> i >= NumMpiTypes
           /\ \A i \in NumMpiTypes..(N - 1) :
                  Contains(cfg.configopts.l[i + 1], self.double_prec_pattern)
    /\ (cuda /\ cfg.double_precision # "True") =>
           \A k \in Steps :
               (IsDoubleVariant(trace[k].idx) /\ trace[k].step \in {"build", "install"}) =>
                   ~trace[k].host

C7_Witness ==
    /\ pc = "completed"
    /\ cuda
    /\ ~(version < V46)
    /\ N = 4
    /\ cfg.double_precision = "False"
    /\ \E k \in Steps : trace[k].step = "build" /\ trace[k].idx = 3 /\ ~trace[k].host

\* The run failed in the configure step of the first variant, before any
\* other step was entered, with the configuration conflict.
FailedAtFirstConfigure ==
    /\ Len(trace) = 1
    /\ trace[1] = Entry("configure", 0, FALSE, "raised", trace[1].opts)
    /\ pc = "failed"
    /\ error = "conflict"
    /\ ~ENABLED Next

\* C8 as stated: for every version, double_precision = True with CUDA makes
\* the run fail in the configure step of the first variant.
C8_ConflictAnyVersion ==
    (cuda /\ cfg.double_precision = "True" /\ Len(trace) > 0) => FailedAtFirstConfigure

\* C8, amended: for versions 4.6 and later, double_precision = True with CUDA
\* makes the run fail with the configuration conflict in the configure step
\* of the first variant, before any build, test or install step, and nothing
\* is entered after it; below 4.6 no configuration conflict is raised.
C8_ConflictFrom46 ==
    /\ (cuda /\ cfg.double_precision = "True" /\ ~(version < V46) /\ Len(trace) > 0) =>
           FailedAtFirstConfigure
    /\ error = "conflict" => (cuda /\ cfg.double_precision = "True" /\ ~(version < V46))

C8_Witness ==
    /\ cuda
    /\ cfg.double_precision = "True"
    /\ version = V46
    /\ N = 4
    /\ FailedAtFirstConfigure

Running == {"configure", "build", "test", "install", "extensions"}

\* The step the host pipeline enters after step s of a round.
StepAfter(s) ==
    CASE s = "configure" -> "build"
      [] s = "build" -> "test"
      [] s = "test" -> "install"
      [] s = "install" -> "extensions"
      [] OTHER -> "configure"

RoundsEnded == Cardinality({k \in Steps : trace[k].step = "extensions"})

\* C9: the variants are processed one after another in plan order, each with
\* the steps configure, build, test, install in that order; a variant starts
\* only after the install step (and the extensions step) of the one before;
\* each step has the variant's own merged strings as active options; the
\* index starts at 0 and grows by one per variant.
C9_SequentialInPlanOrder ==
    /\ Len(trace) > 0 => (trace[1].step = "configure" /\ trace[1].idx = 0)
    /\ \A k \in 1..(Len(trace) - 1) :
           LET a == trace[k]
               b == trace[k + 1]
           IN  /\ a.outcome # "raised"
               /\ a.step \in PipelineSteps => (b.step = StepAfter(a.step) /\ b.idx = a.idx)
               /\ a.step = "extensions" =>
                      \/ b.step = "configure" /\ b.idx = a.idx + 1 /\ b.idx < N
                      \/ b.step = "sanity_check" /\ a.idx = N - 1
    /\ pc \in Running =>
           /\ self.iter_idx = RoundsEnded
           /\ self.iter_idx < N
           /\ Len(trace) > 0 => pc = StepAfter(trace[Len(trace)].step)
    /\ pc = "configure" => cfg.configopts = StrVal(self.iter_opts.configopts[self.iter_idx + 1])
    /\ pc \in {"configure", "build"} =>
           cfg.buildopts = StrVal(self.iter_opts.buildopts[self.iter_idx + 1])
    /\ pc \in {"configure", "build", "test", "install"} =>
           cfg.installopts = StrVal(self.iter_opts.installopts[self.iter_idx + 1])
    /\ pc \in {"build", "test", "install"} =>
           /\ ~cfg.configopts.isList
           /\ IsPrefix(self.iter_opts.configopts[self.iter_idx + 1], cfg.configopts.s)
    /\ \A k \in Steps :
           trace[k].host =>
               /\ trace[k].step = "configure" =>
                      IsPrefix(self.iter_opts.configopts[trace[k].idx + 1], trace[k].opts)
               /\ trace[k].step = "build" =>
                      trace[k].opts = self.iter_opts.buildopts[trace[k].idx + 1]
               /\ trace[k].step = "install" =>
                      IsPrefix(self.iter_opts.installopts[trace[k].idx + 1], trace[k].opts)

C9_Witness ==
    /\ pc = "completed"
    /\ NoStepFailed
    /\ N = 4
    /\ ~cuda
    /\ \E k \in Steps : /\ trace[k].step = "install" /\ trace[k].idx = 3 /\ trace[k].host
                        /\ trace[k].opts # self.iter_opts.installopts[4]

Terminal == pc \in {"completed", "failed"}

\* A step taken while running leads to a running position, to the next
\* round, past the last round, or to failed.
RunningStep == pc' \in (Running \cup {"ready", "post_iter", "failed"})

\* C10: with every step invocation returning, a run goes from the plan
\* through the rounds to completed or failed and reaches one of the two; it
\* ends completed exactly when every variant was processed and no step
\* failed, a skipped step leaves it running, and failed is never left.
C10_RunnerLifecycle ==
    /\ <>Terminal
    /\ [](Terminal => (pc = "completed" <=> (AllVariantsProcessed /\ NoStepFailed)))
    /\ [](pc = "completed" => error = "none")
    /\ []((Len(trace) > 0 /\ trace[Len(trace)].outcome = "skipped") => pc \in Running \cup {"ready", "post_iter"})
    /\ [][pc = "start" => pc' = "ready"]_vars
    /\ [][pc = "ready" => pc' = "configure"]_vars
    /\ [][(pc \in Running) => RunningStep]_vars
    /\ [][pc = "failed" => pc' = "failed"]_vars
    /\ [][pc = "completed" => pc' = "completed"]_vars

C10_Witness ==
    /\ pc = "completed"
    /\ N = 2
    /\ cuda
    /\ usempi
    /\ AllVariantsProcessed
    /\ NoStepFailed
    /\ \E k \in Steps : trace[k].step = "test" /\ trace[k].outcome = "skipped"

\* The MPI mode of the variant planned at index idx.
IsMpiVariant(idx) == versions_built[idx + 1][5] = "mpi"

\* The step entered last.
LastStep == trace[Len(trace)]

\* The launcher is needed for the variant being configured: an MPI variant
\* whose test_step would run the tests.
MpiexecRequired(idx) ==
    /\ IsMpiVariant(idx)
    /\ ~is_double_precision_cuda_build(cuda, self.double_prec_pattern, cfg.configopts.s)
    /\ runs_tests(cfg.runtest)

\* C11: a missing MPI launcher makes configure_step fail if and only if the
\* variant being configured is an MPI variant whose tests test_step would
\* run (runtest unset or true); otherwise the missing launcher is ignored.
C11_MpiexecErrorIffRequired ==
    (Len(trace) > 0 /\ LastStep.step = "configure" /\ ~mpiexec_found) =>
        ((LastStep.outcome = "raised" /\ error = "mpiexec") <=> MpiexecRequired(LastStep.idx))

\* The easyconfig's own configopts carry the double precision flag of this
\* version; run_all_steps then puts it into the options of every variant.
CommonSelectsDouble == Contains(common.configopts, self.double_prec_pattern)

\* The parent's build or install was invoked for the step logged at k.
BuiltOrInstalled(k) == trace[k].step \in {"build", "install"} /\ trace[k].host

\* The plan part of the precision policy: the single precision variants come
\* first and are always there; the double precision ones follow when
\* double_precision is unset and are absent when it is False.
PrecisionPlan ==
    Planned =>
        /\ N >= NumMpiTypes
        /\ \A i \in 0..(NumMpiTypes - 1) : ~IsDoubleVariant(i)
        /\ cfg.double_precision = "None" =>
               (N = 2 * NumMpiTypes /\ \A i \in NumMpiTypes..(N - 1) : IsDoubleVariant(i))
        /\ cfg.double_precision = "False" =>
               (N = NumMpiTypes /\ \A i \in 0..(N - 1) : ~IsDoubleVariant(i))

\* The parent's build and install are invoked for a double precision variant
\* if and only if CUDA is not there.
DoubleBuiltIffNoCuda ==
    \A k \in Steps :
        (trace[k].step \in {"build", "install"} /\ IsDoubleVariant(trace[k].idx)) =>
            (trace[k].host <=> ~cuda)

\* C12: single precision variants are always planned and built; with
\* double_precision unset the double precision variants are built and
\* installed if and only if CUDA is not present; with double_precision False
\* no double precision variant is planned or built.
C12_PrecisionPolicy ==
    /\ PrecisionPlan
    /\ DoubleBuiltIffNoCuda
    /\ \A k \in Steps :
           (trace[k].step \in {"build", "install"} /\ ~IsDoubleVariant(trace[k].idx)) =>
               trace[k].host

\* C12, amended: as C12, except that the single precision variants are built
\* unless CUDA is present and the easyconfig's own configopts carry the double
\* precision flag; then every variant counts as a double precision CUDA
\* build and the parent's build and install are invoked for none.
C12_PrecisionPolicyAmended ==
    /\ PrecisionPlan
    /\ DoubleBuiltIffNoCuda
    /\ \A k \in Steps :
           (trace[k].step \in {"build", "install"} /\ ~IsDoubleVariant(trace[k].idx)) =>
               (trace[k].host <=> ~(cuda /\ CommonSelectsDouble))

\* A completed run without CUDA and with double_precision unset, in which the
\* parent's install was invoked for a single and for a double precision variant.
C12_Witness ==
    /\ pc = "completed"
    /\ ~cuda
    /\ cfg.double_precision = "None"
    /\ N = 4
    /\ \E k \in Steps : BuiltOrInstalled(k) /\ trace[k].step = "install" /\ trace[k].idx = 1
    /\ \E k \in Steps : BuiltOrInstalled(k) /\ trace[k].step = "install" /\ trace[k].idx = 3

\* C13: whenever the parent's extensions step (the one-time hook) is executed,
\* the active installopts are the installopts saved at the start of
\* run_all_steps, without a variant's install target and without "-j"; also
\* when the install step of the last variant was skipped.
C13_HookSeesSavedInstallopts ==
    \A k \in Steps :
        (trace[k].step = "extensions" /\ trace[k].host) =>
            /\ trace[k].opts = self.save_installopts.s
            /\ ~Contains(trace[k].opts, <<"-j">>)
            /\ ~Contains(trace[k].opts, <<"install">>)
            /\ ~Contains(trace[k].opts, <<"install-mdrun">>)

\* C14: when run_all_steps has returned from a run in which all variants
\* completed, cfg['install_cmd'] and cfg['build_cmd'] are again the values
\* saved at its start, whatever the version.
C14_CommandsRestored ==
    pc = "completed" =>
        /\ cfg.install_cmd = self.save_install_cmd
        /\ cfg.build_cmd = self.save_build_cmd

\* C15: for every variant either all four of configure, build, test and
\* install return early without their parent step, or none of them does,
\* whatever the version and the dependencies.
C15_SkipAllOrNone ==
    \A j, k \in Steps :
        (/\ trace[j].step \in PipelineSteps
         /\ trace[k].step \in PipelineSteps
         /\ trace[j].idx = trace[k].idx) =>
            (trace[j].outcome = "skipped" <=> trace[k].outcome = "skipped")

\* The configure options planned for the variant at index idx select double
\* precision (the test is_double_precision_cuda_build and the sanity check
\* both make).
SelectsDouble(idx) == Contains(self.iter_opts.configopts[idx + 1], self.double_prec_pattern)

\* The parent's build and install were both invoked for the variant at index
\* idx, and both returned.
BuiltAndInstalled(idx) ==
    \A s \in {"build", "install"} :
        \E k \in Steps : /\ trace[k].step = s /\ trace[k].idx = idx
                         /\ trace[k].host /\ trace[k].outcome = "done"

SanityChecked == Len(trace) > 0 /\ LastStep.step = "sanity_check"

Count(s, a) == Cardinality({i \in 1..Len(s) : s[i] = a})

\* The target the claim names for a runtest value: 'check' for unset or True,
\* the string itself otherwise, then "-j <parallel>".
NamedTarget(rt) ==
    (IF rt.kind \in {"None", "True"} THEN <<"check">> ELSE rt.s) \o <<SP>> \o JFlag \o <<SP>>

\* What a test_step that runs the tests hands to the parent, and what it
\* leaves in cfg['runtest'] when it returns.
TestStepRuns ==
    LET e == trace'[Len(trace')]
    IN  /\ e.host => (e.opts = NamedTarget(cfg.runtest) /\ Count(e.opts, "-j") = 1)
        /\ pc' = "install" => cfg'.runtest = cfg.runtest

ExtensionsUnsetsRuntest ==
    /\ pc = "extensions"
    /\ self.iter_idx = N - 1
    /\ cfg'.runtest = NoneRuntest

\* A step that returns changes cfg['runtest'] only if it is extensions_step on
\* the last variant.
RuntestChangedByHookOnly ==
    (cfg'.runtest # cfg.runtest /\ pc' # "failed") => ExtensionsUnsetsRuntest

\* C17: a test_step that returns leaves cfg['runtest'] as it found it; the
\* tests are run exactly when runtest is unset or true; the parent's test
\* step sees '<target> -j <parallel>', target 'check' for unset or True, with
\* a single '-j' whatever the number of variants before; and nothing but
\* extensions_step on the last variant changes runtest (to unset).
C17_RuntestFrame ==
    [][/\ (pc = "test") =>
              /\ TestStepRuns
              /\ trace'[Len(trace')].host <=> runs_tests(cfg.runtest)
       /\ RuntestChangedByHookOnly]_vars

\* C17, amended: as C17, except that the tests are run exactly when runtest
\* is unset or true and the variant is not a skipped double precision CUDA
\* variant.
C17_RuntestFrameAmended ==
    [][/\ (pc = "test") =>
              /\ TestStepRuns
              /\ trace'[Len(trace')].host <=>
                     /\ runs_tests(cfg.runtest)
                     /\ ~is_double_precision_cuda_build(cuda, self.double_prec_pattern,
                                                        cfg.configopts.s)
       /\ RuntestChangedByHookOnly]_vars

\* The test step of a later variant has just run the tests with runtest True:
\* the parent saw 'check -j <parallel>' and runtest is True again.
C17_Witness ==
    /\ pc = "install"
    /\ Len(trace) > 0
    /\ LastStep.step = "test" /\ LastStep.idx = 3 /\ LastStep.host
    /\ LastStep.opts = <<"check", SP, "-j", SP, "<parallel>", SP>>
    /\ cfg.runtest.kind = "True"

====
